---- MODULE Spec2Model ----
(***************************************************************************)
(* MortgagePool / MortgageManager / PropertyNFT as one state machine.      *)
(* Every external function is one action; a require that fails, a checked  *)
(* arithmetic panic or a failed ETH transfer reverts the whole call: the   *)
(* contract state is unchanged (such a step stutters).                     *)
(* Amounts are in wei, time is in days.                                    *)
(***************************************************************************)
EXTENDS Integers, Sequences, FiniteSets, TLC

\* ---------------------------------------------------------------- bounds
\* state-changing calls in one run
MaxOps == 4
\* the clock stops here
MaxTime == 135

\* ------------------------------------------------------------- constants
INSURANCE_RATE == 200
BASIS_POINTS == 10000
SECONDS_PER_MONTH == 30
LATE_FEE_BPS == 500
GRACE_PERIOD == 15
DEFAULT_PERIOD == 90
MIN_DOWN_BPS == 1000
MAX_RATE_BPS == 2000
MONTHS_PER_YEAR == 12
INITIAL_RATE_BPS == 500

\* ---------------------------------------------------------------- inputs
Users == {"alice", "bob"}
Manager == "manager"
Owner == "deployer"
NoAddress == "0x0"
PropertyIds == {0, 1}
\* who applies for mortgages
Borrowers == {"bob"}
\* who calls the owner-only functions: the owner and one other account
Admins == {Owner, "alice"}
\* who calls checkDefault, which is open to anyone
Keepers == {"alice"}
DepositAmounts == {0, 3, 100}
ShareAmounts == {0, 3, 100}
PlainTransfers == {5}
\* who the owner authorizes and revokes, and what an authorized account passes
\* to the pool's gated functions when it calls them itself
Authorizable == {Manager, "alice"}
DirectAmounts == {2}
DownPayments == {1, 11}
Durations == {0, 2}
Rates == {2000, 2001}
\* days the clock advances in one step
TimeSteps == {45}
\* the steps of a clock that reaches 30, 31, 45 and 46 days after a payment
DaySteps == {15, 16}
\* what the recipient of an ETH transfer calls back, from its receive hook,
\* while the transfer is in flight
NoCallback == [call |-> "none", id |-> 0]
ReentrantCalls == {"checkDefault", "makePayment", "withdrawLiquidity"}
Callbacks == {NoCallback} \cup {[call |-> c, id |-> i] : c \in ReentrantCalls, i \in PropertyIds}

VARIABLES
    \* MortgagePool
    totalLiquidity, totalShares, insuranceReserve, activeMortgages,
    totalInterestEarned, lpShares, authorizedBorrowers, poolBalance,
    \* MortgageManager
    mortgages, borrowerMortgages, totalActiveMortgages, defaultInterestRateBPS,
    \* PropertyNFT
    properties, nftOwner, nftApproved,
    \* environment: block.timestamp
    now,
    \* history: value ever deposited / ever paid out by withdrawals, and the
    \* number of state-changing calls made
    sumDeposited, sumWithdrawn, nOps

poolVars == <<totalLiquidity, totalShares, insuranceReserve, activeMortgages,
              totalInterestEarned, lpShares, authorizedBorrowers, poolBalance>>
mgrVars == <<mortgages, borrowerMortgages, totalActiveMortgages, defaultInterestRateBPS>>
nftVars == <<properties, nftOwner, nftApproved>>
histVars == <<sumDeposited, sumWithdrawn, nOps>>
vars == <<poolVars, mgrVars, nftVars, now, histVars>>

Min(a, b) == IF a <= b THEN a ELSE b

\* -------------------------------------------------------- MortgageManager
EmptyMortgage ==
    [propertyId |-> 0, borrower |-> NoAddress, propertyValue |-> 0,
     downPayment |-> 0, loanAmount |-> 0, interestRateBPS |-> 0,
     durationMonths |-> 0, monthlyPayment |-> 0,
     lastPaymentTimestamp |-> 0, totalPaid |-> 0, ownershipSharesBPS |-> 0,
     paymentsCount |-> 0, status |-> "None"]

\* valueUSD of the properties the deployment mints to the manager and lists
MintedValue(id) == IF id = 0 THEN 100 ELSE 15

\* a call that reverts leaves no trace: every state change it made is undone
Counted == nOps < MaxOps /\ nOps' = nOps + 1

Revert == UNCHANGED <<poolVars, mgrVars, nftVars, now, histVars>>

Init ==
    /\ totalLiquidity = 0
    /\ totalShares = 0
    /\ insuranceReserve = 0
    /\ activeMortgages = 0
    /\ totalInterestEarned = 0
    /\ lpShares = [u \in Users |-> 0]
    /\ authorizedBorrowers = {Manager}
    /\ poolBalance = 0
    /\ mortgages = [id \in PropertyIds |-> EmptyMortgage]
    /\ borrowerMortgages = [u \in Users |-> <<>>]
    /\ totalActiveMortgages = 0
    /\ defaultInterestRateBPS = INITIAL_RATE_BPS
    /\ properties = [id \in PropertyIds |-> [valueUSD |-> MintedValue(id), isListed |-> TRUE]]
    /\ nftOwner = [id \in PropertyIds |-> Manager]
    /\ nftApproved = [id \in PropertyIds |-> FALSE]
    /\ now = 0
    /\ sumDeposited = 0
    /\ sumWithdrawn = 0
    /\ nOps = 0

\* ------------------------------------------------------------- reentrancy
\* A call made from the receive hook of the recipient of withdrawLiquidity's
\* or fundMortgage's transfer runs while the pool's ReentrancyGuard is
\* entered: every nonReentrant pool function reverts, and so does every
\* manager function that calls one (makePayment, applyForMortgage).
\* checkDefault carries no guard: it runs, and reverts only if it reaches
\* coverDefault. fresh is the property applyForMortgage is originating, if any.
ReentrantCheckDefaultResult(propertyId, fresh) ==
    LET m == mortgages[propertyId] IN
    IF propertyId \in fresh THEN "ok"
    ELSE IF m.status # "Active" THEN "Mortgage not active"
    ELSE IF ~(now - m.lastPaymentTimestamp > DEFAULT_PERIOD) THEN "ok"
    ELSE IF totalActiveMortgages = 0 /\ fresh = {} THEN "Panic: underflow"
    ELSE IF m.totalPaid - m.downPayment > m.loanAmount THEN "Panic: underflow"
    ELSE IF /\ m.loanAmount - (m.totalPaid - m.downPayment) > 0
            /\ (m.loanAmount - (m.totalPaid - m.downPayment)) \div 2 <= insuranceReserve
    THEN "ReentrancyGuardReentrantCall"
    ELSE IF nftOwner[propertyId] # m.borrower THEN "ERC721IncorrectOwner"
    ELSE IF ~nftApproved[propertyId] THEN "ERC721InsufficientApproval"
    ELSE "ok"

\* the outcome of a call made back while a transfer is in flight
ReentrantResult(cb, fresh) ==
    IF cb.call = "none" THEN "ok"
    ELSE IF cb.call = "checkDefault" THEN ReentrantCheckDefaultResult(cb.id, fresh)
    ELSE "ReentrancyGuardReentrantCall"

\* the call made back forecloses the mortgage on cb.id
ReentrantForecloses(cb, fresh) ==
    /\ cb.call = "checkDefault"
    /\ cb.id \notin fresh
    /\ ReentrantResult(cb, fresh) = "ok"
    /\ mortgages[cb.id].status = "Active"
    /\ now - mortgages[cb.id].lastPaymentTimestamp > DEFAULT_PERIOD

\* manager and registry state once the transfer, and the call made back
\* during it, have returned
AfterCallback(cb, fresh) ==
    IF ReentrantForecloses(cb, fresh)
    THEN [mortgages |-> [mortgages EXCEPT ![cb.id].status = "Foreclosed"],
          totalActiveMortgages |-> totalActiveMortgages - 1,
          nftOwner |-> [nftOwner EXCEPT ![cb.id] = Manager],
          nftApproved |-> [nftApproved EXCEPT ![cb.id] = FALSE],
          properties |-> [properties EXCEPT ![cb.id].isListed = TRUE]]
    ELSE [mortgages |-> mortgages,
          totalActiveMortgages |-> totalActiveMortgages,
          nftOwner |-> nftOwner,
          nftApproved |-> nftApproved,
          properties |-> properties]

\* ------------------------------------------------------------ MortgagePool
\* share minting that rounds up instead of down
DepositShares_RoundsUp(amount) ==
    IF totalShares = 0 THEN amount
    ELSE (amount * totalShares + totalLiquidity - 1) \div totalLiquidity

\* shares minted for a deposit (first deposit 1:1, then proportional, floor)
DepositShares(amount) ==
    IF totalShares = 0 THEN amount
    ELSE (amount * totalShares) \div totalLiquidity

\* the insurance cut rounded up
InsuranceAmount_RoundsUp(amount) ==
    (amount * INSURANCE_RATE + BASIS_POINTS - 1) \div BASIS_POINTS

InsuranceAmount(amount) == (amount * INSURANCE_RATE) \div BASIS_POINTS

\* a deposit that keeps the insurance cut out of totalLiquidity
DepositedLiquidity_NetOfInsurance(amount) == amount - InsuranceAmount(amount)

\* what a deposit adds to totalLiquidity: all of msg.value, the insurance cut
\* is not deducted
DepositedLiquidity(amount) == amount

\* the reason depositLiquidity reverts with, or "ok"
DepositResult(caller, amount) ==
    IF amount = 0 THEN "Must deposit ETH"
    ELSE IF totalShares # 0 /\ totalLiquidity = 0 THEN "Panic: division by zero"
    ELSE "ok"

\* the minted shares replacing the depositor's holding
CreditShares_Overwrite(caller, shares) == [lpShares EXCEPT ![caller] = shares]

\* the minted shares are added to the depositor's holding
CreditShares(caller, shares) == [lpShares EXCEPT ![caller] = @ + shares]

\* what a deposit that does not revert changes
depositLiquidityEffects(caller, amount) ==
    /\ insuranceReserve' = insuranceReserve + InsuranceAmount(amount)
    /\ lpShares' = CreditShares(caller, DepositShares(amount))
    /\ totalShares' = totalShares + DepositShares(amount)
    /\ totalLiquidity' = totalLiquidity + DepositedLiquidity(amount)
    /\ poolBalance' = poolBalance + amount
    /\ sumDeposited' = sumDeposited + amount
    /\ UNCHANGED <<activeMortgages, totalInterestEarned, authorizedBorrowers,
                   mgrVars, nftVars, now, sumWithdrawn>>

depositLiquidity(caller, amount) ==
    IF DepositResult(caller, amount) # "ok" THEN Revert
    ELSE Counted /\ depositLiquidityEffects(caller, amount)

\* ETH paid out for redeemed shares (floor)
WithdrawEthAmount(shares) == (shares * totalLiquidity) \div totalShares

\* availableLiquidity() with the capital locked in mortgages left out
AvailableLiquidity_Total == totalLiquidity

\* liquid ETH, not locked in mortgages
AvailableLiquidity == totalLiquidity - activeMortgages

\* the liquidity check with the capital locked in mortgages left out
WithdrawHasLiquidity_IgnoresLocked(ethAmount) == ethAmount <= totalLiquidity

WithdrawHasLiquidity(ethAmount) == ethAmount <= AvailableLiquidity

\* the transfer's success flag never required
TransferSucceeds_Unchecked(amount, accepts) == TRUE

\* msg.sender.call{value: amount}(""): the pool must hold the value and the
\* recipient must accept it
TransferSucceeds(amount, accepts) == amount <= poolBalance /\ accepts

\* withdrawLiquidity sending the ETH before it checks the liquidity
WithdrawResult_TransferFirst(caller, shares, accepts) ==
    IF lpShares[caller] < shares THEN "Insufficient shares"
    ELSE IF shares = 0 THEN "Must withdraw > 0 shares"
    ELSE IF ~TransferSucceeds(WithdrawEthAmount(shares), accepts) THEN "ETH transfer failed"
    ELSE IF activeMortgages > totalLiquidity THEN "Panic: underflow"
    ELSE IF ~WithdrawHasLiquidity(WithdrawEthAmount(shares))
    THEN "Insufficient liquidity (funds locked in mortgages)"
    ELSE "ok"

\* the reason withdrawLiquidity reverts with, or "ok"
WithdrawResult(caller, shares, accepts) ==
    IF lpShares[caller] < shares THEN "Insufficient shares"
    ELSE IF shares = 0 THEN "Must withdraw > 0 shares"
    ELSE IF activeMortgages > totalLiquidity THEN "Panic: underflow"
    ELSE IF ~WithdrawHasLiquidity(WithdrawEthAmount(shares))
    THEN "Insufficient liquidity (funds locked in mortgages)"
    ELSE IF ~TransferSucceeds(WithdrawEthAmount(shares), accepts) THEN "ETH transfer failed"
    ELSE "ok"

\* withdrawLiquidity sending the ETH before it updates its counters: what the
\* recipient would then find
WithdrawAtTransfer_TransferFirst(caller, shares) ==
    [lpShares |-> lpShares, totalShares |-> totalShares,
     totalLiquidity |-> totalLiquidity, activeMortgages |-> activeMortgages]

\* the pool's counters at the instant withdrawLiquidity issues its transfer:
\* what the recipient finds when it is called
WithdrawAtTransfer(caller, shares) ==
    [lpShares |-> [lpShares EXCEPT ![caller] = @ - shares],
     totalShares |-> totalShares - shares,
     totalLiquidity |-> totalLiquidity - WithdrawEthAmount(shares),
     activeMortgages |-> activeMortgages]

\* the pool's counters at the instant fundMortgage issues its transfer
FundAtTransfer(amount) ==
    [totalLiquidity |-> totalLiquidity, totalShares |-> totalShares,
     activeMortgages |-> activeMortgages + amount]

withdrawLiquidity(caller, shares, accepts, cb) ==
    IF WithdrawResult(caller, shares, accepts) # "ok" THEN Revert
    ELSE
        /\ Counted
        /\ mortgages' = AfterCallback(cb, {}).mortgages
        /\ totalActiveMortgages' = AfterCallback(cb, {}).totalActiveMortgages
        /\ nftOwner' = AfterCallback(cb, {}).nftOwner
        /\ nftApproved' = AfterCallback(cb, {}).nftApproved
        /\ properties' = AfterCallback(cb, {}).properties
        /\ lpShares' = [lpShares EXCEPT ![caller] = @ - shares]
        /\ totalShares' = totalShares - shares
        /\ totalLiquidity' = totalLiquidity - WithdrawEthAmount(shares)
        /\ poolBalance' = poolBalance - WithdrawEthAmount(shares)
        /\ sumWithdrawn' = sumWithdrawn + WithdrawEthAmount(shares)
        /\ UNCHANGED <<insuranceReserve, activeMortgages, totalInterestEarned,
                       authorizedBorrowers, borrowerMortgages, defaultInterestRateBPS,
                       now, sumDeposited>>

\* receive(): plain ETH sent to the pool is held but not accounted
receive(caller, amount) ==
    /\ Counted
    /\ poolBalance' = poolBalance + amount
    /\ UNCHANGED <<totalLiquidity, totalShares, insuranceReserve, activeMortgages,
                   totalInterestEarned, lpShares, authorizedBorrowers,
                   mgrVars, nftVars, now, sumDeposited, sumWithdrawn>>

\* fundMortgage without its authorization check
FundMortgageResult_Ungated(caller, amount, accepts) ==
    IF activeMortgages > totalLiquidity THEN "Panic: underflow"
    ELSE IF amount > totalLiquidity - activeMortgages THEN "Insufficient liquidity"
    ELSE IF ~TransferSucceeds(amount, accepts) THEN "ETH transfer failed"
    ELSE "ok"

\* fundMortgage: the reason it reverts with, or "ok"
FundMortgageResult(caller, amount, accepts) ==
    IF caller \notin authorizedBorrowers THEN "Not authorized"
    ELSE IF activeMortgages > totalLiquidity THEN "Panic: underflow"
    ELSE IF amount > totalLiquidity - activeMortgages THEN "Insufficient liquidity"
    ELSE IF ~TransferSucceeds(amount, accepts) THEN "ETH transfer failed"
    ELSE "ok"

\* receiveMortgagePayment without the comparison of msg.value with the parts
ReceivePaymentResult_NoMismatch(caller, value, principal, interest) ==
    IF caller \notin authorizedBorrowers THEN "Not authorized"
    ELSE IF principal > activeMortgages THEN "Panic: underflow"
    ELSE "ok"

\* receiveMortgagePayment: the reason it reverts with, or "ok"
ReceivePaymentResult(caller, value, principal, interest) ==
    IF caller \notin authorizedBorrowers THEN "Not authorized"
    ELSE IF value # principal + interest THEN "Payment amount mismatch"
    ELSE IF principal > activeMortgages THEN "Panic: underflow"
    ELSE "ok"

\* coverDefault without the comparison of the amount with the reserve
CoverDefaultResult_NoReserveCheck(caller, amount) ==
    IF caller \notin authorizedBorrowers THEN "Not authorized"
    ELSE IF amount > insuranceReserve \/ amount > activeMortgages THEN "Panic: underflow"
    ELSE "ok"

\* coverDefault: the reason it reverts with, or "ok"
CoverDefaultResult(caller, amount) ==
    IF caller \notin authorizedBorrowers THEN "Not authorized"
    ELSE IF amount > insuranceReserve THEN "Insufficient insurance reserve"
    ELSE IF amount > activeMortgages THEN "Panic: underflow"
    ELSE "ok"

\* the pool's gated functions called directly, by a caller other than the manager
fundMortgage(caller, borrower, amount, accepts, cb) ==
    IF FundMortgageResult(caller, amount, accepts) # "ok" THEN Revert
    ELSE
        /\ Counted
        /\ activeMortgages' = activeMortgages + amount
        /\ poolBalance' = poolBalance - amount
        /\ mortgages' = AfterCallback(cb, {}).mortgages
        /\ totalActiveMortgages' = AfterCallback(cb, {}).totalActiveMortgages
        /\ nftOwner' = AfterCallback(cb, {}).nftOwner
        /\ nftApproved' = AfterCallback(cb, {}).nftApproved
        /\ properties' = AfterCallback(cb, {}).properties
        /\ UNCHANGED <<totalLiquidity, totalShares, insuranceReserve, totalInterestEarned,
                       lpShares, authorizedBorrowers, borrowerMortgages,
                       defaultInterestRateBPS, now, sumDeposited, sumWithdrawn>>

receiveMortgagePayment(caller, value, principal, interest) ==
    IF ReceivePaymentResult(caller, value, principal, interest) # "ok" THEN Revert
    ELSE
        /\ Counted
        /\ activeMortgages' = activeMortgages - principal
        /\ totalLiquidity' = totalLiquidity + value
        /\ totalInterestEarned' = totalInterestEarned + interest
        /\ poolBalance' = poolBalance + value
        /\ UNCHANGED <<totalShares, insuranceReserve, lpShares, authorizedBorrowers,
                       mgrVars, nftVars, now, sumDeposited, sumWithdrawn>>

coverDefault(caller, amount) ==
    IF CoverDefaultResult(caller, amount) # "ok" THEN Revert
    ELSE
        /\ Counted
        /\ insuranceReserve' = insuranceReserve - amount
        /\ activeMortgages' = activeMortgages - amount
        /\ UNCHANGED <<totalLiquidity, totalShares, totalInterestEarned, lpShares,
                       authorizedBorrowers, poolBalance, mgrVars, nftVars, now,
                       sumDeposited, sumWithdrawn>>

AuthorizeResult(caller) == IF caller # Owner THEN "OwnableUnauthorizedAccount" ELSE "ok"

authorizeBorrower(caller, borrower) ==
    IF AuthorizeResult(caller) # "ok" THEN Revert
    ELSE
        /\ Counted
        /\ authorizedBorrowers' = authorizedBorrowers \cup {borrower}
        /\ UNCHANGED <<totalLiquidity, totalShares, insuranceReserve, activeMortgages,
                       totalInterestEarned, lpShares, poolBalance, mgrVars, nftVars, now,
                       sumDeposited, sumWithdrawn>>

revokeBorrower(caller, borrower) ==
    IF AuthorizeResult(caller) # "ok" THEN Revert
    ELSE
        /\ Counted
        /\ authorizedBorrowers' = authorizedBorrowers \ {borrower}
        /\ UNCHANGED <<totalLiquidity, totalShares, insuranceReserve, activeMortgages,
                       totalInterestEarned, lpShares, poolBalance, mgrVars, nftVars, now,
                       sumDeposited, sumWithdrawn>>

\* -------------------------------------------------------- MortgageManager
\* the monthly payment with a full year's interest charged every month
calculateMonthlyPayment_AnnualInterest(principal, annualRateBPS, months) ==
    IF months = 0 THEN 0
    ELSE (principal + (principal * annualRateBPS * months) \div BASIS_POINTS) \div months

calculateMonthlyPayment(principal, annualRateBPS, months) ==
    IF months = 0 THEN 0
    ELSE (principal + (principal * annualRateBPS * months)
                          \div (BASIS_POINTS * MONTHS_PER_YEAR)) \div months

MinDownPayment(valueUSD) == (valueUSD * MIN_DOWN_BPS) \div BASIS_POINTS

\* makePayment with the total paid counted from the payment alone
OwnershipAfterPayment_PaymentOnly(m, value) ==
    Min(BASIS_POINTS, (value * BASIS_POINTS) \div m.propertyValue)

\* the ownership makePayment records, in basis points, capped at 100%
OwnershipAfterPayment(m, value) ==
    Min(BASIS_POINTS, ((m.totalPaid + value) * BASIS_POINTS) \div m.propertyValue)

\* unlistProperty left out of _activateMortgage
unlistProperty_Forgotten(tokenId) == properties

\* PropertyNFT.unlistProperty, PropertyNFT.listProperty
unlistProperty(tokenId) == [properties EXCEPT ![tokenId].isListed = FALSE]

\* listProperty left out of _foreclose
listProperty_Forgotten(tokenId) == properties

listProperty(tokenId) == [properties EXCEPT ![tokenId].isListed = TRUE]

\* the status check of applyForMortgage passing for a property that was
\* financed before, once that mortgage has ended
IsUnmortgaged_OrEnded(propertyId) ==
    mortgages[propertyId].status \in {"None", "PaidOff", "Foreclosed"}

\* the status check of applyForMortgage: the property was never financed
IsUnmortgaged(propertyId) == mortgages[propertyId].status = "None"

\* _foreclose leaving the status _handleDefault set
ForeclosedStatus_LeftDefaulted == "Defaulted"

\* the status a record has when applyForMortgage returns (Applied is replaced
\* by _activateMortgage before any external call) and when checkDefault
\* returns after a default (Defaulted is replaced by _foreclose)
ActivatedStatus == "Active"

ForeclosedStatus == "Foreclosed"

\* the reason applyForMortgage reverts with, or "ok"
ApplyResult(caller, propertyId, durationMonths, value, accepts) ==
    LET p == properties[propertyId] IN
    IF ~p.isListed THEN "Property not listed"
    ELSE IF ~IsUnmortgaged(propertyId) THEN "Property already mortgaged"
    ELSE IF value < MinDownPayment(p.valueUSD) THEN "Insufficient down payment (min 10%)"
    ELSE IF value > p.valueUSD THEN "Panic: underflow"
    ELSE IF activeMortgages > totalLiquidity THEN "Panic: underflow"
    ELSE IF AvailableLiquidity < p.valueUSD - value THEN "Insufficient pool liquidity"
    ELSE IF p.valueUSD = 0 THEN "Panic: division by zero"
    ELSE IF FundMortgageResult(Manager, p.valueUSD - value, accepts) # "ok"
    THEN FundMortgageResult(Manager, p.valueUSD - value, accepts)
    ELSE IF nftOwner[propertyId] # Manager THEN "ERC721IncorrectOwner"
    ELSE "ok"

\* the manager's and the registry's state at the instant the pool, called from
\* _activateMortgage, issues the transfer of the loan: the record is written
\* and Active and the mortgage counted; the token is transferred and the
\* property unlisted only after fundMortgage has returned
ApplyAtTransfer(caller, propertyId, durationMonths, value) ==
    LET p == properties[propertyId] IN
    [mortgage |->
        [propertyId |-> propertyId, borrower |-> caller,
         propertyValue |-> p.valueUSD, downPayment |-> value,
         loanAmount |-> p.valueUSD - value, interestRateBPS |-> defaultInterestRateBPS,
         durationMonths |-> durationMonths,
         monthlyPayment |-> calculateMonthlyPayment(p.valueUSD - value,
                                defaultInterestRateBPS, durationMonths),
         lastPaymentTimestamp |-> now, totalPaid |-> value,
         ownershipSharesBPS |-> (value * BASIS_POINTS) \div p.valueUSD,
         paymentsCount |-> 0, status |-> "Active"],
     borrowerMortgages |-> [borrowerMortgages EXCEPT ![caller] = Append(@, propertyId)],
     totalActiveMortgages |-> totalActiveMortgages + 1,
     activeMortgages |-> FundAtTransfer(p.valueUSD - value).activeMortgages,
     nftOwner |-> nftOwner[propertyId],
     isListed |-> p.isListed]

\* a record created with nothing counted as paid
InitialTotalPaid_Zero(value) == 0

\* the record's totalPaid starts at the down payment
InitialTotalPaid(value) == value

\* what an application that does not revert changes
applyForMortgageEffects(caller, propertyId, durationMonths, value, accepts, cb) ==
    LET p == properties[propertyId]
        loanAmount == p.valueUSD - value
        after == AfterCallback(cb, {propertyId})
    IN
    /\ mortgages' = [after.mortgages EXCEPT ![propertyId] =
          [propertyId |-> propertyId, borrower |-> caller,
           propertyValue |-> p.valueUSD, downPayment |-> value,
           loanAmount |-> loanAmount, interestRateBPS |-> defaultInterestRateBPS,
           durationMonths |-> durationMonths,
           monthlyPayment |-> calculateMonthlyPayment(loanAmount,
                                  defaultInterestRateBPS, durationMonths),
           lastPaymentTimestamp |-> now, totalPaid |-> InitialTotalPaid(value),
           ownershipSharesBPS |-> (value * BASIS_POINTS) \div p.valueUSD,
           paymentsCount |-> 0, status |-> ActivatedStatus]]
    /\ borrowerMortgages' = [borrowerMortgages EXCEPT ![caller] = Append(@, propertyId)]
    /\ totalActiveMortgages' = after.totalActiveMortgages + 1
    /\ activeMortgages' = activeMortgages + loanAmount
    /\ poolBalance' = poolBalance - loanAmount
    /\ nftOwner' = [after.nftOwner EXCEPT ![propertyId] = caller]
    /\ nftApproved' = [after.nftApproved EXCEPT ![propertyId] = FALSE]
    /\ properties' = [after.properties EXCEPT ![propertyId] = unlistProperty(propertyId)[propertyId]]
    /\ UNCHANGED <<totalLiquidity, totalShares, insuranceReserve, totalInterestEarned,
                   lpShares, authorizedBorrowers, defaultInterestRateBPS, now,
                   sumDeposited, sumWithdrawn>>

applyForMortgage(caller, propertyId, durationMonths, value, accepts, cb) ==
    IF ApplyResult(caller, propertyId, durationMonths, value, accepts) # "ok" THEN Revert
    ELSE Counted /\ applyForMortgageEffects(caller, propertyId, durationMonths, value, accepts, cb)

\* the late fee charged from one month on, without the grace period
ExpectedPayment_NoGrace(m) ==
    IF now - m.lastPaymentTimestamp > SECONDS_PER_MONTH
    THEN m.monthlyPayment + (m.monthlyPayment * LATE_FEE_BPS) \div BASIS_POINTS
    ELSE m.monthlyPayment

\* what makePayment expects: the monthly payment, plus the late fee once the
\* grace period has passed
ExpectedPayment(m) ==
    IF now - m.lastPaymentTimestamp > SECONDS_PER_MONTH + GRACE_PERIOD
    THEN m.monthlyPayment + (m.monthlyPayment * LATE_FEE_BPS) \div BASIS_POINTS
    ELSE m.monthlyPayment

RemainingBalance(m) == m.loanAmount - (m.totalPaid - m.downPayment)

\* the interest part taken at the annual rate
InterestPayment_AnnualRate(m) ==
    (RemainingBalance(m) * m.interestRateBPS) \div BASIS_POINTS

InterestPayment(m) ==
    (RemainingBalance(m) * (m.interestRateBPS \div MONTHS_PER_YEAR)) \div BASIS_POINTS

PrincipalPayment(m) == ExpectedPayment(m) - InterestPayment(m)

\* the completion test with the payment count left out
IsPaidOff_OwnershipOnly(ownershipBPS, paymentsCount, durationMonths) ==
    ownershipBPS >= BASIS_POINTS

\* the mortgage is paid off after this payment
IsPaidOff(ownershipBPS, paymentsCount, durationMonths) ==
    ownershipBPS >= BASIS_POINTS \/ paymentsCount >= durationMonths

\* the ownership _completeMortgage records
CompletedOwnershipBPS == BASIS_POINTS

\* makePayment without the check that the caller is the borrower
MakePaymentResult_AnyCaller(caller, propertyId, value) ==
    LET m == mortgages[propertyId] IN
    IF m.status # "Active" THEN "Mortgage not active"
    ELSE IF value < ExpectedPayment(m) THEN "Insufficient payment"
    ELSE IF m.totalPaid - m.downPayment > m.loanAmount THEN "Panic: underflow"
    ELSE IF InterestPayment(m) > ExpectedPayment(m) THEN "Panic: underflow"
    ELSE ReceivePaymentResult(Manager, value, PrincipalPayment(m), InterestPayment(m))

\* the reason makePayment reverts with, or "ok"
MakePaymentResult(caller, propertyId, value) ==
    LET m == mortgages[propertyId] IN
    IF m.status # "Active" THEN "Mortgage not active"
    ELSE IF caller # m.borrower THEN "Not the borrower"
    ELSE IF value < ExpectedPayment(m) THEN "Insufficient payment"
    ELSE IF m.totalPaid - m.downPayment > m.loanAmount THEN "Panic: underflow"
    ELSE IF InterestPayment(m) > ExpectedPayment(m) THEN "Panic: underflow"
    ELSE ReceivePaymentResult(Manager, value, PrincipalPayment(m), InterestPayment(m))

\* a completion that leaves the counter of active mortgages as it is
CompletedCount_Kept == totalActiveMortgages

\* _completeMortgage takes the mortgage out of the counter of active mortgages
CompletedCount == totalActiveMortgages - 1

\* what a payment that does not revert changes
makePaymentEffects(caller, propertyId, value) ==
    LET m == mortgages[propertyId]
        totalPaid == m.totalPaid + value
        ownership == OwnershipAfterPayment(m, value)
        paidOff == IsPaidOff(ownership, m.paymentsCount + 1, m.durationMonths)
    IN
    /\ mortgages' = [mortgages EXCEPT ![propertyId] =
          [m EXCEPT !.totalPaid = totalPaid,
                    !.lastPaymentTimestamp = now,
                    !.paymentsCount = m.paymentsCount + 1,
                    !.ownershipSharesBPS =
                        IF paidOff THEN CompletedOwnershipBPS ELSE ownership,
                    !.status = IF paidOff THEN "PaidOff" ELSE "Active"]]
    /\ totalActiveMortgages' =
          IF paidOff THEN CompletedCount ELSE totalActiveMortgages
    /\ activeMortgages' = activeMortgages - PrincipalPayment(m)
    /\ totalLiquidity' = totalLiquidity + value
    /\ totalInterestEarned' = totalInterestEarned + InterestPayment(m)
    /\ poolBalance' = poolBalance + value
    /\ UNCHANGED <<totalShares, insuranceReserve, lpShares, authorizedBorrowers,
                   borrowerMortgages, defaultInterestRateBPS, nftVars, now,
                   sumDeposited, sumWithdrawn>>

makePayment(caller, propertyId, value) ==
    IF MakePaymentResult(caller, propertyId, value) # "ok" THEN Revert
    ELSE Counted /\ makePaymentEffects(caller, propertyId, value)

\* the insurance covers half of the remaining balance
InsuranceCoverage(remainingBalance) == remainingBalance \div 2

\* whether _handleDefault calls coverDefault at all
CallsCoverDefault(remainingBalance) ==
    remainingBalance > 0 /\ InsuranceCoverage(remainingBalance) <= insuranceReserve

\* what coverDefault then takes from the reserve and from activeMortgages
InsurancePayout(remainingBalance) ==
    IF CallsCoverDefault(remainingBalance) THEN InsuranceCoverage(remainingBalance) ELSE 0

IsDefault(m) == now - m.lastPaymentTimestamp > DEFAULT_PERIOD

CheckDefaultResult(propertyId) ==
    LET m == mortgages[propertyId] IN
    IF m.status # "Active" THEN "Mortgage not active"
    ELSE IF ~IsDefault(m) THEN "ok"
    ELSE IF totalActiveMortgages = 0 THEN "Panic: underflow"
    ELSE IF m.totalPaid - m.downPayment > m.loanAmount THEN "Panic: underflow"
    ELSE IF CallsCoverDefault(RemainingBalance(m))
            /\ CoverDefaultResult(Manager, InsuranceCoverage(RemainingBalance(m))) # "ok"
    THEN CoverDefaultResult(Manager, InsuranceCoverage(RemainingBalance(m)))
    ELSE IF nftOwner[propertyId] # m.borrower THEN "ERC721IncorrectOwner"
    ELSE IF ~nftApproved[propertyId] THEN "ERC721InsufficientApproval"
    ELSE "ok"

checkDefault(caller, propertyId) ==
    LET m == mortgages[propertyId]
        result == CheckDefaultResult(propertyId)
    IN
    IF result # "ok" THEN Revert
    ELSE IF ~IsDefault(m)
    THEN UNCHANGED <<poolVars, mgrVars, nftVars, now, histVars>>
    ELSE
        /\ Counted
        /\ mortgages' = [mortgages EXCEPT ![propertyId].status = ForeclosedStatus]
        /\ totalActiveMortgages' = totalActiveMortgages - 1
        /\ insuranceReserve' = insuranceReserve - InsurancePayout(RemainingBalance(m))
        /\ activeMortgages' = activeMortgages - InsurancePayout(RemainingBalance(m))
        /\ nftOwner' = [nftOwner EXCEPT ![propertyId] = Manager]
        /\ nftApproved' = [nftApproved EXCEPT ![propertyId] = FALSE]
        /\ properties' = listProperty(propertyId)
        /\ UNCHANGED <<totalLiquidity, totalShares, totalInterestEarned, lpShares,
                       authorizedBorrowers, poolBalance, borrowerMortgages,
                       defaultInterestRateBPS, now, sumDeposited, sumWithdrawn>>

\* isPaymentOverdue waiting for the grace period as the late fee does
isPaymentOverdue_WithGrace(propertyId) ==
    /\ mortgages[propertyId].status = "Active"
    /\ now - mortgages[propertyId].lastPaymentTimestamp > SECONDS_PER_MONTH + GRACE_PERIOD

\* isPaymentOverdue (view)
isPaymentOverdue(propertyId) ==
    IF mortgages[propertyId].status # "Active" THEN FALSE
    ELSE now - mortgages[propertyId].lastPaymentTimestamp > SECONDS_PER_MONTH

\* setDefaultInterestRate without the cap on the rate
SetRateResult_NoCap(caller, rateBPS) ==
    IF caller # Owner THEN "OwnableUnauthorizedAccount" ELSE "ok"

\* the reason setDefaultInterestRate reverts with, or "ok"
SetRateResult(caller, rateBPS) ==
    IF caller # Owner THEN "OwnableUnauthorizedAccount"
    ELSE IF rateBPS > MAX_RATE_BPS THEN "Rate too high (max 20%)"
    ELSE "ok"

setDefaultInterestRate(caller, rateBPS) ==
    IF SetRateResult(caller, rateBPS) # "ok" THEN Revert
    ELSE
        /\ Counted
        /\ defaultInterestRateBPS' = rateBPS
        /\ UNCHANGED <<poolVars, mortgages, borrowerMortgages, totalActiveMortgages,
                       nftVars, now, sumDeposited, sumWithdrawn>>

\* getShareValue: what a provider's shares are worth
getShareValue(provider) ==
    IF lpShares[provider] = 0 \/ totalShares = 0 THEN 0
    ELSE (lpShares[provider] * totalLiquidity) \div totalShares

\* ------------------------------------------------------------ PropertyNFT
\* ERC721 approve(manager, tokenId) by the token's holder
approve(caller, tokenId) ==
    IF nftOwner[tokenId] # caller THEN Revert
    ELSE
        /\ Counted
        /\ nftApproved' = [nftApproved EXCEPT ![tokenId] = TRUE]
        /\ UNCHANGED <<poolVars, mgrVars, properties, nftOwner, now,
                       sumDeposited, sumWithdrawn>>

\* ------------------------------------------------------------ environment
\* time passes between transactions
Warp(d) ==
    /\ now + d <= MaxTime
    /\ now' = now + d
    /\ UNCHANGED <<poolVars, mgrVars, nftVars, histVars>>

\* what the borrower of an active mortgage may send with makePayment
PaymentValues(propertyId) ==
    LET e == ExpectedPayment(mortgages[propertyId]) IN
    {mortgages[propertyId].monthlyPayment, e, e + 1}

Deposit == \E caller \in Users, amount \in DepositAmounts : depositLiquidity(caller, amount)

Withdraw ==
    \E caller \in Users, shares \in ShareAmounts, accepts \in BOOLEAN :
        \E cb \in IF accepts THEN Callbacks ELSE {NoCallback} :
            withdrawLiquidity(caller, shares, accepts, cb)

Receive == \E caller \in Users, amount \in PlainTransfers : receive(caller, amount)

FundDirect ==
    \E caller \in Users, borrower \in Borrowers, amount \in DirectAmounts, accepts \in BOOLEAN :
        \E cb \in IF accepts THEN Callbacks ELSE {NoCallback} :
            fundMortgage(caller, borrower, amount, accepts, cb)

RepayDirect ==
    \E caller \in Users, principal \in DirectAmounts, interest \in DirectAmounts :
        \E value \in {principal + interest, principal + interest + 1} :
            receiveMortgagePayment(caller, value, principal, interest)

CoverDirect == \E caller \in Users, amount \in DirectAmounts : coverDefault(caller, amount)

Authorize ==
    \E caller \in Admins, borrower \in Authorizable : authorizeBorrower(caller, borrower)

Revoke ==
    \E caller \in Admins, borrower \in Authorizable : revokeBorrower(caller, borrower)

Apply ==
    \E caller \in Borrowers, id \in PropertyIds, months \in Durations,
       value \in DownPayments, accepts \in BOOLEAN :
        \E cb \in IF accepts THEN Callbacks ELSE {NoCallback} :
            applyForMortgage(caller, id, months, value, accepts, cb)

Pay ==
    \E caller \in Users, id \in PropertyIds :
        \E value \in PaymentValues(id) : makePayment(caller, id, value)

CheckDefault == \E caller \in Keepers, id \in PropertyIds : checkDefault(caller, id)

SetRate == \E caller \in Admins, rate \in Rates : setDefaultInterestRate(caller, rate)

Approve == \E caller \in Users, id \in PropertyIds : approve(caller, id)

Tick == \E d \in TimeSteps : Warp(d)

Next ==
    \/ Deposit \/ Withdraw \/ Receive \/ FundDirect \/ RepayDirect \/ CoverDirect
    \/ Authorize \/ Revoke \/ Apply \/ Pay \/ CheckDefault \/ SetRate \/ Approve \/ Tick

Spec == Init /\ [][Next]_vars

\* deposits and withdrawals only: a pool with no loan activity
NextPool == Deposit \/ Withdraw

SpecPool == Init /\ [][NextPool]_vars

\* deposits of 100, applications with a down payment of 20 over 12 months by
\* an account that accepts the loan, payments, and time
ScenarioDeposit == \E caller \in Users : depositLiquidity(caller, 100)

ScenarioApply ==
    \E caller \in Borrowers, id \in PropertyIds :
        applyForMortgage(caller, id, 12, 20, TRUE, NoCallback)

NextScenario == ScenarioDeposit \/ ScenarioApply \/ Pay \/ Tick

SpecScenario == Init /\ [][NextScenario]_vars

\* one provider, one mortgage whose late fee is not rounded to nothing
\* (monthly payment 44, fee 2), payments, and a clock in steps of 15 and 16 days
ClockDeposit == depositLiquidity("alice", 100)

ClockApply == \E caller \in Borrowers : applyForMortgage(caller, 0, 2, 11, TRUE, NoCallback)

ClockPay == \E caller \in Borrowers : \E value \in PaymentValues(0) : makePayment(caller, 0, value)

ClockTick == \E d \in DaySteps : Warp(d)

NextClock == ClockDeposit \/ ClockApply \/ ClockPay \/ ClockTick

SpecClock == Init /\ [][NextClock]_vars

\* one provider funds the pool once; a borrower takes a mortgage with a down
\* payment of 20 over 1, 2 or 3 months and, for as long as it is Active, pays
\* exactly what makePayment expects, never more than a month after the
\* previous payment. These steps are not limited by MaxOps: the run is as
\* long as the term.
PayoffTerms == {1, 2, 3}

PayoffDownPayments == {20}

PayoffSteps == {15, 30}

PayoffDeposit ==
    /\ totalShares = 0
    /\ IF DepositResult("alice", 100) # "ok" THEN Revert
       ELSE depositLiquidityEffects("alice", 100) /\ nOps' = nOps

PayoffApply ==
    \E caller \in Borrowers, id \in PropertyIds, months \in PayoffTerms,
       value \in PayoffDownPayments :
        IF ApplyResult(caller, id, months, value, TRUE) # "ok" THEN Revert
        ELSE /\ applyForMortgageEffects(caller, id, months, value, TRUE, NoCallback)
             /\ nOps' = nOps

PayoffPay ==
    \E id \in PropertyIds :
        LET m == mortgages[id] IN
        /\ m.status = "Active"
        /\ IF MakePaymentResult(m.borrower, id, ExpectedPayment(m)) # "ok" THEN Revert
           ELSE makePaymentEffects(m.borrower, id, ExpectedPayment(m)) /\ nOps' = nOps

PayoffTick ==
    \E d \in PayoffSteps :
        /\ \A id \in PropertyIds :
              mortgages[id].status = "Active" =>
                  now + d - mortgages[id].lastPaymentTimestamp <= SECONDS_PER_MONTH
        /\ Warp(d)

NextPayoff == PayoffDeposit \/ PayoffApply \/ PayoffPay \/ PayoffTick

\* the borrower of the claim keeps paying: a payment that can be made is made
SpecPayoff == Init /\ [][NextPayoff]_vars /\ WF_vars(PayoffPay)

\* deposits of 1 and of 100 into a pool whose totalLiquidity repayments raise
\* above totalShares
SmallDeposits == {1, 100}

SharesDeposit == \E caller \in Users, amount \in SmallDeposits : depositLiquidity(caller, amount)

NextShares == SharesDeposit \/ Withdraw \/ Apply \/ Pay

SpecShares == Init /\ [][NextShares]_vars

\* ----------------------------------------------------------------- claims
\* C1: in every reachable state the capital locked in mortgages is at most
\* totalLiquidity, so availableLiquidity() is never negative.
C1_ActiveWithinLiquidity == activeMortgages <= totalLiquidity

\* a mortgage is funded and a withdrawal was paid out while it was locked
C1_Witness == activeMortgages > 0 /\ sumWithdrawn > 0 /\ totalLiquidity > activeMortgages

\* C2 (as claimed): a default on a mortgage with remaining balance R > 0 takes
\* min(floor(R/2), insuranceReserve) from the insurance reserve.
C2_PayoutCappedAtReserve ==
    [][\A id \in PropertyIds :
         (/\ mortgages[id].status = "Active"
          /\ mortgages'[id].status = "Foreclosed"
          /\ mortgages[id].loanAmount - (mortgages[id].totalPaid - mortgages[id].downPayment) > 0)
         => insuranceReserve - insuranceReserve' =
              Min((mortgages[id].loanAmount
                     - (mortgages[id].totalPaid - mortgages[id].downPayment)) \div 2,
                  insuranceReserve)]_vars

\* C3 (as claimed): totalLiquidity is what was deposited, plus the interest
\* credited, minus what was withdrawn.
C3_LiquidityIsDepositsPlusInterest ==
    totalLiquidity = sumDeposited + totalInterestEarned - sumWithdrawn

\* C4 (as claimed): for every mortgage that exists, whatever its status,
\* ownershipSharesBPS = min(10000, floor(totalPaid * 10000 / propertyValue)).
C4_OwnershipFormulaEveryStatus ==
    \A id \in PropertyIds :
        mortgages[id].status # "None" =>
            mortgages[id].ownershipSharesBPS =
                Min(10000, (mortgages[id].totalPaid * 10000) \div mortgages[id].propertyValue)

\* C5: a successful makePayment never lowers the mortgage's ownershipSharesBPS,
\* and ownershipSharesBPS is within 0..10000 in every reachable state.
C5_OwnershipMonotone ==
    /\ [](\A id \in PropertyIds : mortgages[id].ownershipSharesBPS \in 0..10000)
    /\ [][\A id \in PropertyIds :
            mortgages'[id].paymentsCount = mortgages[id].paymentsCount + 1
            => mortgages'[id].ownershipSharesBPS >= mortgages[id].ownershipSharesBPS]_vars

\* a mortgage is still Active after two payments
C5_Witness ==
    \E id \in PropertyIds :
        /\ mortgages[id].status = "Active"
        /\ mortgages[id].paymentsCount >= 1
        /\ mortgages[id].ownershipSharesBPS > 0

\* C6 (as claimed): every accepted application records a down payment of at
\* least a true tenth of the property value, and loan + down payment = value.
C6_TrueTenPercent ==
    \A id \in PropertyIds :
        mortgages[id].status # "None" =>
            /\ 10 * mortgages[id].downPayment >= mortgages[id].propertyValue
            /\ mortgages[id].loanAmount + mortgages[id].downPayment = mortgages[id].propertyValue

\* C7 (as claimed): an application for a property whose mortgage is Active
\* fails with "Property already mortgaged".
C7_SecondApplyAlreadyMortgaged ==
    \A id \in PropertyIds :
        mortgages[id].status = "Active" =>
            \A caller \in Users, months \in Durations, accepts \in BOOLEAN :
                \A value \in DownPayments \cup {0, properties[id].valueUSD} :
                    ApplyResult(caller, id, months, value, accepts) = "Property already mortgaged"

\* C7 (amended): an application for a property whose mortgage is Active always
\* fails, with "Property not listed", and no step originates a mortgage on it
\* again: the record's origination data and the borrower's list are unchanged.
C7_SecondApplyNotListed ==
    /\ [](\A id \in PropertyIds :
            mortgages[id].status = "Active" =>
                \A caller \in Users, months \in Durations, accepts \in BOOLEAN :
                    \A value \in DownPayments \cup {0, properties[id].valueUSD} :
                        ApplyResult(caller, id, months, value, accepts) = "Property not listed")
    /\ [][\A id \in PropertyIds :
            mortgages[id].status = "Active" =>
                /\ mortgages'[id].borrower = mortgages[id].borrower
                /\ mortgages'[id].downPayment = mortgages[id].downPayment
                /\ mortgages'[id].loanAmount = mortgages[id].loanAmount
                /\ mortgages'[id].paymentsCount >= mortgages[id].paymentsCount
                /\ \A u \in Users :
                       borrowerMortgages'[u] # Append(borrowerMortgages[u], id)]_vars

\* a mortgage is Active while the pool could fund a second one on the property
C7_Witness ==
    \E id \in PropertyIds :
        /\ mortgages[id].status = "Active"
        /\ AvailableLiquidity >= properties[id].valueUSD

\* C8: a withdrawal of shares the caller holds, worth more than the available
\* liquidity, fails with the funds-locked reason, and no withdrawal that is
\* paid out pays more than the liquidity available before it.
C8_WithdrawBeyondAvailableFails ==
    /\ [](\A caller \in Users, accepts \in BOOLEAN :
            \A shares \in 1..lpShares[caller] :
                (shares * totalLiquidity) \div totalShares > totalLiquidity - activeMortgages
                => WithdrawResult(caller, shares, accepts)
                       = "Insufficient liquidity (funds locked in mortgages)")
    /\ [][\A caller \in Users :
            lpShares'[caller] < lpShares[caller]
            => /\ totalLiquidity - totalLiquidity' <= totalLiquidity - activeMortgages
               /\ totalShares - totalShares' = lpShares[caller] - lpShares'[caller]]_vars

\* a provider holds shares worth more than the liquidity that is available
C8_Witness ==
    \E caller \in Users :
        /\ lpShares[caller] > 0
        /\ activeMortgages > 0
        /\ (lpShares[caller] * totalLiquidity) \div totalShares > totalLiquidity - activeMortgages

\* C9: with deposits and withdrawals only, totalLiquidity is what was deposited
\* minus what withdrawals paid out, and no provider's share value is negative.
C9_LiquidityIsDepositsMinusWithdrawals ==
    /\ totalLiquidity = sumDeposited - sumWithdrawn
    /\ \A u \in Users : getShareValue(u) >= 0

\* both providers deposited and one withdrawal was paid out
C9_Witness ==
    /\ sumWithdrawn > 0
    /\ totalShares > 0
    /\ \A u \in Users : getShareValue(u) > 0

\* C10: while shares exist before and after a step, totalLiquidity per share
\* never decreases (compared cross-multiplied), whatever the step.
C10_ShareValueMonotone ==
    [][(totalShares > 0 /\ totalShares' > 0)
       => totalLiquidity' * totalShares >= totalLiquidity * totalShares']_vars

\* shares are worth more than 1:1 and shares were minted at that price
C10_Witness ==
    /\ totalShares > 0
    /\ totalLiquidity > totalShares
    /\ sumDeposited > totalShares + sumWithdrawn

\* C11: a record's status only changes None -> Active (an origination: the
\* borrower is recorded and the payment count is 0), Active -> PaidOff (a
\* payment: the count goes up by one) or Active -> Foreclosed; a PaidOff or
\* Foreclosed record never changes again, and no record is ever left in
\* Applied or Defaulted.
C11_StatusTransitions ==
    /\ [](\A id \in PropertyIds :
            mortgages[id].status \in {"None", "Active", "PaidOff", "Foreclosed"})
    /\ [][\A id \in PropertyIds :
            /\ mortgages[id].status \in {"PaidOff", "Foreclosed"}
               => mortgages'[id] = mortgages[id]
            /\ mortgages'[id].status # mortgages[id].status
               => \/ /\ mortgages[id].status = "None"
                     /\ mortgages'[id].status = "Active"
                     /\ mortgages'[id].borrower \in Users
                     /\ mortgages'[id].paymentsCount = 0
                  \/ /\ mortgages[id].status = "Active"
                     /\ mortgages'[id].status = "PaidOff"
                     /\ mortgages'[id].paymentsCount = mortgages[id].paymentsCount + 1
                  \/ /\ mortgages[id].status = "Active"
                     /\ mortgages'[id].status = "Foreclosed"
                     /\ now - mortgages[id].lastPaymentTimestamp > DEFAULT_PERIOD
                     /\ mortgages'[id].paymentsCount = mortgages[id].paymentsCount]_vars

\* a mortgage was originated and has been foreclosed
C11_Witness ==
    \E id \in PropertyIds :
        /\ mortgages[id].status = "Foreclosed"
        /\ mortgages[id].borrower \in Users

C13_NoReentrantMutation ==
    [][/\ totalShares' < totalShares
          => UNCHANGED <<mortgages, totalActiveMortgages, nftVars>>
       /\ activeMortgages' > activeMortgages
          => \A id \in PropertyIds :
                 mortgages[id].status # "None" =>
                     /\ mortgages'[id] = mortgages[id]
                     /\ nftOwner'[id] = nftOwner[id]
                     /\ properties'[id] = properties[id]]_vars

\* C14: when the ETH transfer of withdrawLiquidity, or of fundMortgage inside
\* applyForMortgage, fails (the recipient rejects it or the pool does not
\* hold the amount) the call reverts; so shares are only ever burned together
\* with their payout, a mortgage is only ever originated together with the
\* payment of its loan, and the pool never pays out ETH it does not hold.
C14_TransferFailureReverts ==
    /\ [](poolBalance >= 0)
    /\ [](\A caller \in Users, accepts \in BOOLEAN :
            \A shares \in 1..lpShares[caller] :
                (~accepts \/ (shares * totalLiquidity) \div totalShares > poolBalance)
                => WithdrawResult(caller, shares, accepts) # "ok")
    /\ [](\A caller \in Users, id \in PropertyIds, months \in Durations,
             accepts \in BOOLEAN :
            \A value \in DownPayments \cup {0, properties[id].valueUSD} :
                (~accepts \/ properties[id].valueUSD - value > poolBalance)
                => ApplyResult(caller, id, months, value, accepts) # "ok")
    /\ [][/\ totalShares' < totalShares
             => /\ poolBalance - poolBalance' = totalLiquidity - totalLiquidity'
                /\ sumWithdrawn' - sumWithdrawn = poolBalance - poolBalance'
          /\ \A id \in PropertyIds :
                 (mortgages[id].status = "None" /\ mortgages'[id].status # "None")
                 => /\ poolBalance - poolBalance' = mortgages'[id].loanAmount
                    /\ activeMortgages' - activeMortgages = mortgages'[id].loanAmount
                    /\ nftOwner'[id] = mortgages'[id].borrower
                    /\ ~properties'[id].isListed]_vars

\* a withdrawal and an application that pass every check and fail only
\* because the recipient rejects the ETH
C14_Witness ==
    /\ \E caller \in Users :
           /\ lpShares[caller] >= 3
           /\ WithdrawResult(caller, 3, TRUE) = "ok"
           /\ WithdrawResult(caller, 3, FALSE) = "ETH transfer failed"
    /\ \E caller \in Borrowers, id \in PropertyIds, months \in Durations, value \in DownPayments :
           /\ ApplyResult(caller, id, months, value, TRUE) = "ok"
           /\ ApplyResult(caller, id, months, value, FALSE) = "ETH transfer failed"

\* C15: fundMortgage, receiveMortgagePayment and coverDefault fail with
\* "Not authorized" for every caller outside authorizedBorrowers, so while the
\* set is empty nothing they write changes, no payment is taken and no
\* mortgage is originated; the set only changes by one
\* authorizeBorrower or revokeBorrower call of the owner, which changes
\* nothing else.
C15_GatedByAuthorization ==
    /\ [](\A caller \in Users \cup {Manager, Owner} :
            caller \notin authorizedBorrowers =>
                \A amount \in DirectAmounts \cup {0}, accepts \in BOOLEAN :
                    /\ FundMortgageResult(caller, amount, accepts) = "Not authorized"
                    /\ ReceivePaymentResult(caller, amount, amount, 0) = "Not authorized"
                    /\ CoverDefaultResult(caller, amount) = "Not authorized")
    /\ [][/\ authorizedBorrowers = {}
             => /\ UNCHANGED <<activeMortgages, totalInterestEarned>>
                /\ insuranceReserve' >= insuranceReserve
                /\ \A id \in PropertyIds :
                       /\ mortgages'[id].paymentsCount = mortgages[id].paymentsCount
                       /\ mortgages[id].status = "None" => mortgages'[id].status = "None"
          /\ authorizedBorrowers' # authorizedBorrowers
             => \E borrower \in Authorizable :
                    \/ authorizeBorrower(Owner, borrower)
                    \/ revokeBorrower(Owner, borrower)]_vars

\* the owner has revoked the manager while a mortgage is active: the
\* borrower's payment now fails at the pool
C15_Witness ==
    /\ Manager \notin authorizedBorrowers
    /\ \E id \in PropertyIds :
           /\ mortgages[id].status = "Active"
           /\ MakePaymentResult(mortgages[id].borrower, id, ExpectedPayment(mortgages[id]))
                  = "Not authorized"

\* C16 (as claimed): every payment of at least the expected amount that the
\* borrower makes on an Active mortgage is split into two parts that sum to
\* the value sent, so the pool never rejects it with "Payment amount mismatch".
C16_NoPaymentMismatch ==
    \A id \in PropertyIds :
        mortgages[id].status = "Active" =>
            \A value \in PaymentValues(id) :
                value >= ExpectedPayment(mortgages[id])
                => MakePaymentResult(mortgages[id].borrower, id, value)
                       # "Payment amount mismatch"

\* C17 (as claimed): checkDefault on an Active mortgage never fails: it does
\* nothing up to 90 days after the last payment, and past 90 days it succeeds
\* and forecloses, whoever calls it.
C17_CheckDefaultNeverFails ==
    \A id \in PropertyIds :
        mortgages[id].status = "Active" => CheckDefaultResult(id) = "ok"

C19_Scenario ==
    /\ sumDeposited = 100
       => /\ totalShares = 100
          /\ insuranceReserve = 2
          /\ \E u \in Users : lpShares[u] = 100
          /\ mortgages[0].paymentsCount = 0 => totalLiquidity = 100
    /\ mortgages[0].status # "None"
       => /\ mortgages[0].propertyValue = 100
          /\ mortgages[0].downPayment = 20
          /\ mortgages[0].interestRateBPS = 500
          /\ mortgages[0].durationMonths = 12
          /\ mortgages[0].loanAmount = 80
          /\ mortgages[0].monthlyPayment = 7
    /\ (mortgages[0].status # "None" /\ mortgages[0].paymentsCount = 0)
       => /\ activeMortgages = 80
          /\ mortgages[0].ownershipSharesBPS = 2000
    /\ mortgages[0].paymentsCount = 1
       => /\ mortgages[0].totalPaid = 27
          /\ totalInterestEarned = 0
          /\ activeMortgages = 73
          /\ mortgages[0].ownershipSharesBPS = 2700
          /\ mortgages[0].status = "Active"

\* the scenario's last state: one deposit, the mortgage, one payment in time
C19_Witness ==
    /\ sumDeposited = 100
    /\ mortgages[0].status = "Active"
    /\ mortgages[0].paymentsCount = 1
    /\ mortgages[0].lastPaymentTimestamp <= SECONDS_PER_MONTH + GRACE_PERIOD

\* C20: depositLiquidity fails with "Must deposit ETH" for amount 0 and
\* succeeds for every positive amount; a deposit mints amount shares when
\* there are none and floor(amount * totalShares / totalLiquidity) otherwise
\* (totals before the deposit), credits them to one provider, adds the whole
\* amount to totalLiquidity and floor(amount * 200 / 10000) to
\* insuranceReserve, and changes neither activeMortgages nor any other
\* provider's shares.
C20_DepositEffects ==
    /\ [](\A caller \in Users :
            /\ DepositResult(caller, 0) = "Must deposit ETH"
            /\ \A amount \in DepositAmounts \ {0} : DepositResult(caller, amount) = "ok")
    /\ [][sumDeposited' # sumDeposited =>
            LET amount == sumDeposited' - sumDeposited
                minted == IF totalShares = 0 THEN amount
                          ELSE (amount * totalShares) \div totalLiquidity
            IN
            /\ amount > 0
            /\ totalShares' = totalShares + minted
            /\ totalLiquidity' = totalLiquidity + amount
            /\ insuranceReserve' = insuranceReserve + (amount * 200) \div 10000
            /\ \E u \in Users : lpShares' = [lpShares EXCEPT ![u] = @ + minted]
            /\ UNCHANGED <<activeMortgages, totalInterestEarned, authorizedBorrowers,
                           mgrVars, nftVars>>]_vars

\* with no withdrawal made, fewer shares exist than was deposited: some
\* deposit was minted at a share price above 1, out of two providers' deposits
C20_Witness ==
    /\ sumWithdrawn = 0
    /\ \A u \in Users : lpShares[u] > 0
    /\ totalShares < sumDeposited
    /\ insuranceReserve > 0

C22_CoverDefaultSucceedsWithinReserve ==
    \A caller \in authorizedBorrowers :
        \A amount \in 0..(insuranceReserve + 1) :
            CoverDefaultResult(caller, amount)
                = IF amount > insuranceReserve THEN "Insufficient insurance reserve" ELSE "ok"

\* C22 (amended): coverDefault by an authorized caller fails with
\* "Insufficient insurance reserve" when the amount exceeds the reserve; within
\* the reserve it succeeds when the amount is at most activeMortgages and
\* fails on the checked subtraction otherwise; a step that lowers the reserve
\* lowers activeMortgages by the same amount and leaves totalLiquidity,
\* totalShares, every provider's shares and the ETH held by the pool unchanged.
C22_CoverDefaultEffects ==
    /\ [](\A caller \in authorizedBorrowers :
            \A amount \in 0..(insuranceReserve + 1) :
                CoverDefaultResult(caller, amount)
                    = IF amount > insuranceReserve THEN "Insufficient insurance reserve"
                      ELSE IF amount > activeMortgages THEN "Panic: underflow"
                      ELSE "ok")
    /\ [][insuranceReserve' < insuranceReserve =>
            /\ insuranceReserve - insuranceReserve' = activeMortgages - activeMortgages'
            /\ UNCHANGED <<totalLiquidity, totalShares, lpShares, poolBalance,
                           totalInterestEarned, authorizedBorrowers>>]_vars

\* the reserve has been drawn on: a deposit of 100 was made and less than its
\* insurance cut is left
C22_Witness ==
    /\ sumDeposited >= 100
    /\ insuranceReserve < (100 * INSURANCE_RATE) \div BASIS_POINTS
    /\ authorizedBorrowers # {}

\* C23: an application that passes the listing, status and down-payment
\* checks fails with "Insufficient pool liquidity" when the loan exceeds
\* totalLiquidity - activeMortgages; a step that originates a mortgage raises
\* activeMortgages by exactly the loan (property value less down payment),
\* leaves totalLiquidity and all shares unchanged, and leaves the record
\* Active with totalPaid = downPayment and paymentsCount = 0, the property
\* unlisted and its token with the borrower.
C23_ApplyEffects ==
    /\ [](\A caller \in Users, id \in PropertyIds, months \in Durations, accepts \in BOOLEAN :
            \A value \in DownPayments \cup {20, properties[id].valueUSD} :
                (/\ properties[id].isListed
                 /\ mortgages[id].status = "None"
                 /\ value >= (properties[id].valueUSD * 1000) \div 10000
                 /\ value <= properties[id].valueUSD
                 /\ totalLiquidity - activeMortgages < properties[id].valueUSD - value)
                => ApplyResult(caller, id, months, value, accepts) = "Insufficient pool liquidity")
    /\ [][\A id \in PropertyIds :
            (mortgages[id].status = "None" /\ mortgages'[id].status # "None") =>
                LET n == mortgages'[id] IN
                /\ n.status = "Active"
                /\ n.borrower \in Users
                /\ n.propertyValue = properties[id].valueUSD
                /\ n.loanAmount = n.propertyValue - n.downPayment
                /\ n.loanAmount <= totalLiquidity - activeMortgages
                /\ activeMortgages' = activeMortgages + n.loanAmount
                /\ n.totalPaid = n.downPayment
                /\ n.paymentsCount = 0
                /\ n.lastPaymentTimestamp = now
                /\ ~properties'[id].isListed
                /\ nftOwner'[id] = n.borrower
                /\ borrowerMortgages'[n.borrower] = Append(borrowerMortgages[n.borrower], id)
                /\ UNCHANGED <<totalLiquidity, totalShares, lpShares, insuranceReserve,
                               totalInterestEarned>>]_vars

\* part of the pool is lent out, and an application for the other property is
\* turned down for liquidity
C23_Witness ==
    /\ activeMortgages > 0
    /\ totalLiquidity - activeMortgages > 0
    /\ \E caller \in Borrowers, id \in PropertyIds, months \in Durations, value \in DownPayments :
           ApplyResult(caller, id, months, value, TRUE) = "Insufficient pool liquidity"

\* C24: makePayment fails with "Mortgage not active" when the record is not
\* Active, with "Not the borrower" when the caller is not the recorded
\* borrower, and with "Insufficient payment" when the value is below the
\* amount due; so a record's payment count only rises from an Active record,
\* by a payment of at least the monthly payment.
C24_PaymentRejections ==
    /\ [](\A id \in PropertyIds, caller \in Users \cup {Owner, Manager} :
            LET m == mortgages[id]
                due == IF now - m.lastPaymentTimestamp > 45
                       THEN m.monthlyPayment + (m.monthlyPayment * 500) \div 10000
                       ELSE m.monthlyPayment
            IN
            \A value \in 0..(due + 1) :
                /\ m.status # "Active"
                   => MakePaymentResult(caller, id, value) = "Mortgage not active"
                /\ (m.status = "Active" /\ caller # m.borrower)
                   => MakePaymentResult(caller, id, value) = "Not the borrower"
                /\ (m.status = "Active" /\ caller = m.borrower /\ value < due)
                   => MakePaymentResult(caller, id, value) = "Insufficient payment")
    /\ [][\A id \in PropertyIds :
            mortgages'[id].totalPaid # mortgages[id].totalPaid =>
                \/ mortgages[id].status = "None"
                \/ /\ mortgages[id].status = "Active"
                   /\ mortgages'[id].totalPaid - mortgages[id].totalPaid
                          >= mortgages[id].monthlyPayment]_vars

\* an Active mortgage that has taken a payment and has a positive amount due,
\* and an account other than its borrower
C24_Witness ==
    \E id \in PropertyIds, caller \in Users :
        /\ mortgages[id].status = "Active"
        /\ mortgages[id].monthlyPayment > 0
        /\ caller # mortgages[id].borrower
        /\ mortgages[id].paymentsCount > 0

\* C25: the borrower's payment on an Active mortgage is turned down as
\* insufficient exactly when it is below the amount due, which is the monthly
\* payment plus floor(monthlyPayment * 500 / 10000) when more than 30 + 15
\* days have passed since the last payment, and the monthly payment otherwise,
\* at exactly 45 days too.
C25_LateFeeAfterGrace ==
    \A id \in PropertyIds :
        LET m == mortgages[id]
            due == IF now - m.lastPaymentTimestamp > 30 + 15
                   THEN m.monthlyPayment + (m.monthlyPayment * 500) \div 10000
                   ELSE m.monthlyPayment
        IN
        m.status = "Active" =>
            \A value \in 0..(m.monthlyPayment + 3) :
                (MakePaymentResult(m.borrower, id, value) = "Insufficient payment")
                    <=> (value < due)

\* a payment with a late fee has been accepted
C25_Witness ==
    \E id \in PropertyIds :
        /\ mortgages[id].paymentsCount = 1
        /\ mortgages[id].totalPaid - mortgages[id].downPayment > mortgages[id].monthlyPayment

\* C26: isPaymentOverdue is true exactly for an Active mortgage whose last
\* payment is more than 30 days back; between 31 and 45 days it is true
\* while makePayment still accepts the monthly payment without a late fee.
C26_OverdueBeforeLateFee ==
    \A id \in PropertyIds :
        LET m == mortgages[id]
            elapsed == now - m.lastPaymentTimestamp
        IN
        /\ isPaymentOverdue(id) <=> (m.status = "Active" /\ elapsed > 30)
        /\ (m.status = "Active" /\ elapsed > 30 /\ elapsed <= 45)
           => /\ isPaymentOverdue(id)
              /\ MakePaymentResult(m.borrower, id, m.monthlyPayment) # "Insufficient payment"

\* 31 days after the last payment of a mortgage on which a late fee would not
\* be rounded to nothing
C26_Witness ==
    \E id \in PropertyIds :
        /\ mortgages[id].status = "Active"
        /\ now - mortgages[id].lastPaymentTimestamp = 31
        /\ (mortgages[id].monthlyPayment * LATE_FEE_BPS) \div BASIS_POINTS > 0

\* C27: setDefaultInterestRate succeeds exactly for the owner with a rate of
\* at most 2000; the default rate and the rate of every mortgage record are at
\* most 2000 in every state; a step that changes the default rate changes
\* nothing else, and no step changes the rate or the monthly payment of an
\* existing record.
C27_RateCapped ==
    /\ [](/\ defaultInterestRateBPS <= 2000
          /\ \A id \in PropertyIds : mortgages[id].interestRateBPS <= 2000
          /\ \A caller \in Admins \cup Users, rate \in Rates \cup {0, 500} :
                 (SetRateResult(caller, rate) = "ok") <=> (caller = Owner /\ rate <= 2000))
    /\ [][/\ defaultInterestRateBPS' # defaultInterestRateBPS
             => /\ defaultInterestRateBPS' <= 2000
                /\ UNCHANGED <<poolVars, mortgages, borrowerMortgages,
                               totalActiveMortgages, nftVars, now>>
          /\ \A id \in PropertyIds :
                 mortgages[id].status # "None"
                 => /\ mortgages'[id].interestRateBPS = mortgages[id].interestRateBPS
                    /\ mortgages'[id].monthlyPayment = mortgages[id].monthlyPayment]_vars

\* the default rate was raised to the cap after a mortgage was originated at
\* the initial rate
C27_Witness ==
    /\ defaultInterestRateBPS = MAX_RATE_BPS
    /\ \E id \in PropertyIds :
           /\ mortgages[id].status = "Active"
           /\ mortgages[id].interestRateBPS = INITIAL_RATE_BPS

\* C28: what the recipient of a transfer finds when it is called is the
\* ledger the operation leaves behind: for a withdrawal the shares are burned
\* and totalLiquidity reduced, for a funding activeMortgages is raised, and
\* for an application the record is complete and Active, in the borrower's
\* list and counted (the count the step leaves is that count less the
\* mortgages a call made back has foreclosed).
C28_EffectsBeforeTransfer ==
    [][/\ \A caller \in Users :
              lpShares'[caller] < lpShares[caller] =>
                  LET at == WithdrawAtTransfer(caller, lpShares[caller] - lpShares'[caller]) IN
                  /\ at.lpShares = lpShares'
                  /\ at.totalShares = totalShares'
                  /\ at.totalLiquidity = totalLiquidity'
                  /\ at.activeMortgages = activeMortgages'
       /\ activeMortgages' > activeMortgages
          => LET at == FundAtTransfer(activeMortgages' - activeMortgages) IN
             /\ at.activeMortgages = activeMortgages'
             /\ at.totalLiquidity = totalLiquidity'
             /\ at.totalShares = totalShares'
       /\ \A id \in PropertyIds :
              (mortgages[id].status = "None" /\ mortgages'[id].status # "None") =>
                  LET n == mortgages'[id]
                      at == ApplyAtTransfer(n.borrower, id, n.durationMonths, n.downPayment)
                      foreclosed == {j \in PropertyIds : /\ mortgages[j].status = "Active"
                                                         /\ mortgages'[j].status = "Foreclosed"}
                  IN
                  /\ at.mortgage = n
                  /\ at.borrowerMortgages = borrowerMortgages'
                  /\ at.activeMortgages = activeMortgages'
                  /\ at.totalActiveMortgages - Cardinality(foreclosed) = totalActiveMortgages'
                  /\ at.nftOwner = Manager
                  /\ at.isListed]_vars

\* a loan has been paid to a borrower and a withdrawal to a provider
C28_Witness ==
    /\ sumWithdrawn > 0
    /\ totalShares > 0
    /\ \E id \in PropertyIds : mortgages[id].status = "Active"

\* C29: the ETH the pool holds is at least availableLiquidity(), the amount
\* its liquidity checks compare against.
C29_HoldsAvailableLiquidity ==
    poolBalance >= totalLiquidity - activeMortgages

\* C30: the payment due on an Active mortgage, sent by its borrower in the
\* exact amount and on time, is always accepted, and a borrower who keeps
\* paying so sees the mortgage become PaidOff.
C30_OnTimeBorrowerPaysOff ==
    /\ [](\A id \in PropertyIds :
             mortgages[id].status = "Active" =>
                 MakePaymentResult(mortgages[id].borrower, id,
                                   ExpectedPayment(mortgages[id])) = "ok")
    /\ \A id \in PropertyIds :
          (mortgages[id].status = "Active") ~> (mortgages[id].status = "PaidOff")

\* C31: when no mortgage is Active, no capital is counted as lent:
\* activeMortgages is 0.
C31_NoLoanNoLockedCapital ==
    (\A id \in PropertyIds : mortgages[id].status # "Active") => activeMortgages = 0

\* C32: a mortgage that is PaidOff has been repaid: the payments made after
\* the down payment cover at least the loan.
C32_PaidOffMeansRepaid ==
    \A id \in PropertyIds :
        mortgages[id].status = "PaidOff" =>
            mortgages[id].totalPaid - mortgages[id].downPayment >= mortgages[id].loanAmount

\* C33: for every Active mortgage the down payment is at most totalPaid and
\* the payments made since are at most the loan, so the remaining balance
\* loanAmount - (totalPaid - downPayment) is a natural number.
C33_OutstandingWellDefined ==
    \A id \in PropertyIds :
        mortgages[id].status = "Active" =>
            /\ mortgages[id].downPayment <= mortgages[id].totalPaid
            /\ mortgages[id].totalPaid - mortgages[id].downPayment <= mortgages[id].loanAmount

\* a mortgage is Active after a payment that carried the late fee
C33_Witness ==
    \E id \in PropertyIds :
        /\ mortgages[id].status = "Active"
        /\ mortgages[id].paymentsCount = 1
        /\ mortgages[id].totalPaid - mortgages[id].downPayment > mortgages[id].monthlyPayment

\* C34: a deposit that succeeds mints at least one share: a step that raises
\* the sum of the deposits raises totalShares.
C34_DepositMintsShares ==
    [][sumDeposited' > sumDeposited => totalShares' > totalShares]_vars

\* C35: totalShares is the sum of the shares the depositors hold, and while
\* any share exists totalLiquidity is positive.
C35_SharesConserved ==
    /\ totalShares = lpShares["alice"] + lpShares["bob"]
    /\ totalShares > 0 => totalLiquidity > 0

\* both depositors hold shares, one of them after a withdrawal
C35_Witness ==
    /\ lpShares["alice"] > 0
    /\ lpShares["bob"] > 0
    /\ sumWithdrawn > 0

\* C36: totalActiveMortgages is the number of records whose status is Active,
\* and it is never negative.
C36_CounterIsActiveCount ==
    /\ totalActiveMortgages = Cardinality({id \in PropertyIds : mortgages[id].status = "Active"})
    /\ totalActiveMortgages >= 0

\* one mortgage is Active and another has ended
C36_Witness ==
    /\ \E id \in PropertyIds : mortgages[id].status = "Active"
    /\ \E id \in PropertyIds : mortgages[id].status \in {"PaidOff", "Foreclosed"}

\* C37: a property is listed only while its record is None or Foreclosed; a
\* property whose mortgage is Active or PaidOff is unlisted; a property whose
\* mortgage is Foreclosed is listed and its token is held by the manager.
C37_ListingFollowsStatus ==
    \A id \in PropertyIds :
        /\ properties[id].isListed => mortgages[id].status \in {"None", "Foreclosed"}
        /\ mortgages[id].status \in {"Active", "PaidOff"} => ~properties[id].isListed
        /\ mortgages[id].status = "Foreclosed"
           => properties[id].isListed /\ nftOwner[id] = Manager

\* a property was unlisted by a mortgage and listed again by its foreclosure
C37_Witness ==
    \E id \in PropertyIds :
        /\ mortgages[id].status = "Foreclosed"
        /\ properties[id].isListed
        /\ Len(borrowerMortgages[mortgages[id].borrower]) > 0

\* C38: the insurance reserve is at most totalLiquidity in every reachable
\* state.
C38_ReserveWithinLiquidity == insuranceReserve <= totalLiquidity

\* C39: a mortgage is originated with monthlyPayment =
\* floor((loan + floor(loan * rate * months / 120000)) / months) for
\* months >= 1, where rate is the base rate in force at the application and
\* is stored in the record; the record keeps its loan, rate, term and
\* monthly payment from then on, whatever the base rate becomes.
C39_FlatRateAmortization ==
    /\ [](\A id \in PropertyIds :
             LET m == mortgages[id] IN
             (m.status # "None" /\ m.durationMonths >= 1) =>
                 m.monthlyPayment =
                     (m.loanAmount + (m.loanAmount * m.interestRateBPS * m.durationMonths)
                                        \div 120000) \div m.durationMonths)
    /\ [][\A id \in PropertyIds :
            /\ (mortgages[id].status = "None" /\ mortgages'[id].status # "None")
               => /\ mortgages'[id].interestRateBPS = defaultInterestRateBPS
                  /\ mortgages'[id].loanAmount =
                        properties[id].valueUSD - mortgages'[id].downPayment
            /\ mortgages[id].status # "None"
               => /\ mortgages'[id].monthlyPayment = mortgages[id].monthlyPayment
                  /\ mortgages'[id].interestRateBPS = mortgages[id].interestRateBPS
                  /\ mortgages'[id].durationMonths = mortgages[id].durationMonths
                  /\ mortgages'[id].loanAmount = mortgages[id].loanAmount]_vars

\* a mortgage is Active at the rate of its origination after the base rate
\* has changed
C39_Witness ==
    \E id \in PropertyIds :
        /\ mortgages[id].status = "Active"
        /\ mortgages[id].durationMonths >= 1
        /\ mortgages[id].monthlyPayment > 0
        /\ mortgages[id].interestRateBPS # defaultInterestRateBPS

\* C40: for every Active mortgage with a term of at least one month and a
\* rate of at most 2000, the interest part of the next payment,
\* floor(outstanding * floor(rate / 12) / 10000), is at most the monthly
\* payment, so the principal part makePayment computes is a natural number;
\* the same holds of the monthly payment calculateMonthlyPayment gives for
\* loans of up to 2000 over terms of up to 360 months.
C40_InterestWithinPayment ==
    /\ \A id \in PropertyIds :
          LET m == mortgages[id]
              outstanding == m.loanAmount - (m.totalPaid - m.downPayment)
          IN
          (m.status = "Active" /\ m.durationMonths >= 1 /\ m.interestRateBPS <= 2000) =>
              /\ InterestPayment(m) = (outstanding * (m.interestRateBPS \div 12)) \div 10000
              /\ InterestPayment(m) <= m.monthlyPayment
              /\ PrincipalPayment(m) >= 0
    /\ \A loan \in {1, 14, 89, 100, 2000}, months \in {1, 12, 24, 120, 360},
          rate \in {500, 1999, 2000} :
          \A outstanding \in {0, loan \div 2, loan} :
              (outstanding * (rate \div 12)) \div 10000
                  <= calculateMonthlyPayment(loan, rate, months)

\* an Active mortgage at the highest rate whose next payment carries interest
C40_Witness ==
    \E id \in PropertyIds :
        /\ mortgages[id].status = "Active"
        /\ mortgages[id].durationMonths >= 1
        /\ mortgages[id].interestRateBPS = 2000
        /\ InterestPayment(mortgages[id]) > 0
====
